---- MODULE Spec2Model ----
(***************************************************************************)
(* A model of scripts/claude-upload-server/server.py: a single-threaded    *)
(* HTTP server (http.server.HTTPServer) with one handler class,            *)
(* UploadHandler, that serves a page (GET /), lists the upload directory   *)
(* (GET /files) and stores an uploaded file (POST /upload).                *)
(*                                                                         *)
(* Text is a sequence of one-character strings, so that re.sub,            *)
(* os.path.splitext, strftime and the path join are computed character by  *)
(* character as the code computes them.                                    *)
(***************************************************************************)
EXTENDS Integers, Sequences, FiniteSets, TLC

(***************************************************************************)
(* Bounds of the model.                                                    *)
(***************************************************************************)
\* Longest client filename of the naming specification SanSpec.
MaxLen == 3
\* The wall clock runs over 0 .. MaxClock seconds after midnight.
MaxClock == 1
\* Most uploads that reach the write of line 302 in one behaviour.
MaxUploads == 2

(***************************************************************************)
(* Characters.                                                             *)
(***************************************************************************)
Digits == <<"0", "1", "2", "3", "4", "5", "6", "7", "8", "9">>

DigitChars == {Digits[i] : i \in 1..10}

\* The characters a client filename is drawn from: an ASCII letter, the dot,
\* both path separators, and a non-ASCII letter.
InputChars == {"a", ".", "/", "\\", "é"}

\* ASCII letters, digits and the underscore.
AsciiWord == {"a"} \cup DigitChars \cup {"_"}

\* What \w matches in a str pattern (line 290): Python 3 compiles a str
\* pattern with re.UNICODE, so \w is every Unicode letter or digit and the
\* underscore, not [a-zA-Z0-9_] alone.
WordChars == AsciiWord \cup {"é"}

\* The negated class [^\w\-_\.] of line 290 leaves these characters alone.
KeptChars == WordChars \cup {"-", "_", "."}

\* A variant of line 290 whose class also lets the separators through.
KeptCharsWithSeparators == WordChars \cup {"-", "_", ".", "/", "\\"}

\* re.sub(r'[^\w\-_\.]', '_', filename), line 290.
ReSubLoose(s) == [i \in 1..Len(s) |-> IF s[i] \in KeptCharsWithSeparators THEN s[i] ELSE "_"]

ReSub(s) == [i \in 1..Len(s) |-> IF s[i] \in KeptChars THEN s[i] ELSE "_"]

\* str.rfind: the last (1-based) index of c in s, 0 when absent.
RFind(s, c) ==
    LET hits == {i \in 1..Len(s) : s[i] = c}
    IN  IF hits = {} THEN 0 ELSE CHOOSE i \in hits : \A j \in hits : j <= i

\* os.path.splitext (line 293), posixpath: split at the last dot that follows
\* the last separator, unless only dots precede it in that last segment.
SplitExt(p) ==
    LET sepIndex == RFind(p, "/")
        dotIndex == RFind(p, ".")
    IN  IF dotIndex > sepIndex /\ \E k \in (sepIndex + 1)..(dotIndex - 1) : p[k] # "."
        THEN <<SubSeq(p, 1, dotIndex - 1), SubSeq(p, dotIndex, Len(p))>>
        ELSE <<p, <<>>>>

\* A number below 100 as two decimal digits (%H, %M, %S).
TwoDigits(n) == <<Digits[(n \div 10) + 1], Digits[(n % 10) + 1]>>

\* The wall clock as hour, minute, second. The model runs within one day, whose
\* date is the one of the specification's scenario.
Hour(t) == (t \div 3600) % 24
Minute(t) == (t \div 60) % 60
Second(t) == t % 60

\* datetime.now().strftime('%Y%m%d_%H%M%S'), line 294.
Timestamp(t) ==
    <<"2", "0", "2", "4", "0", "1", "1", "5", "_">>
        \o TwoDigits(Hour(t)) \o TwoDigits(Minute(t)) \o TwoDigits(Second(t))

\* strftime('%Y-%m-%d %H:%M:%S') of a modification time, line 262.
TimeStr(t) ==
    <<"2", "0", "2", "4", "-", "0", "1", "-", "1", "5", " ">>
        \o TwoDigits(Hour(t)) \o <<":">> \o TwoDigits(Minute(t)) \o <<":">>
        \o TwoDigits(Second(t))

\* A variant of line 295 that leaves the timestamp out of the name.
StoredNameUnstamped(sanitized, t) ==
    LET parts == SplitExt(sanitized) IN parts[1] \o parts[2]

\* f"{base}_{timestamp}{ext}", lines 293-295, of a sanitized name.
StoredName(sanitized, t) ==
    LET parts == SplitExt(sanitized)
    IN  parts[1] \o <<"_">> \o Timestamp(t) \o parts[2]

(***************************************************************************)
(* Paths. A path is the sequence of its segments, each a text.             *)
(***************************************************************************)
\* UPLOAD_DIR, line 19 (the default): /home/claude/share.
UPLOAD_DIR == << <<"h", "o", "m", "e">>, <<"c", "l", "a", "u", "d", "e">>,
                 <<"s", "h", "a", "r", "e">> >>

\* The segments of a text split at "/", empty and "." segments dropped as
\* pathlib drops them.
RECURSIVE Segments(_)
Segments(s) ==
    IF s = <<>> THEN <<>>
    ELSE LET cut == IF \E i \in 1..Len(s) : s[i] = "/"
                    THEN CHOOSE i \in 1..Len(s) :
                             s[i] = "/" /\ \A j \in 1..(i - 1) : s[j] # "/"
                    ELSE Len(s) + 1
             head == SubSeq(s, 1, cut - 1)
             rest == Segments(SubSeq(s, cut + 1, Len(s)))
         IN  IF head = <<>> \/ head = <<".">> THEN rest ELSE <<head>> \o rest

\* UPLOAD_DIR / filename, line 301: an absolute right operand replaces the
\* left one (its root, "/" or "//", is not a segment).
PathJoin(dir, name) ==
    IF name # <<>> /\ name[1] = "/" THEN Segments(name) ELSE dir \o Segments(name)

\* The path with its ".." segments resolved against their parents.
RECURSIVE Resolve(_)
Resolve(p) ==
    IF p = <<>> THEN <<>>
    ELSE LET front == Resolve(SubSeq(p, 1, Len(p) - 1))
             last == p[Len(p)]
         IN  IF last = <<".", ".">>
             THEN (IF front = <<>> THEN <<>> ELSE SubSeq(front, 1, Len(front) - 1))
             ELSE front \o <<last>>

\* p is a path strictly below dir.
Inside(dir, p) == Len(p) > Len(dir) /\ SubSeq(p, 1, Len(dir)) = dir

\* str(filepath), line 305.
RECURSIVE PathStr(_)
PathStr(p) == IF p = <<>> THEN <<>> ELSE <<"/">> \o p[1] \o PathStr(Tail(p))

\* The size string of line 257: bytes below 1024, else KB or MB to one decimal
\* (the tenths, rounded half to even as the float format rounds an exact value).
Tenths(size, unit) ==
    LET q == (size * 10) \div unit
        r == (size * 10) % unit
    IN  IF 2 * r > unit \/ (2 * r = unit /\ q % 2 = 1) THEN q + 1 ELSE q

\* number: the integer for bytes, else <<whole part, first decimal>>.
SizeStr(size) ==
    LET kb == Tenths(size, 1024)
        mb == Tenths(size, 1024 * 1024)
    IN  IF size < 1024 THEN [number |-> <<size>>, unit |-> "B"]
        ELSE IF size < 1024 * 1024 THEN [number |-> <<kb \div 10, kb % 10>>, unit |-> "KB"]
        ELSE [number |-> <<mb \div 10, mb % 10>>, unit |-> "MB"]

(***************************************************************************)
(* State.                                                                  *)
(***************************************************************************)
VARIABLES
    clock,      \* datetime.now(), seconds after midnight
    dirExists,  \* UPLOAD_DIR.exists()
    dir,        \* the entries of UPLOAD_DIR: name -> [kind, data, mtime]
    log,        \* history: the writes of line 302, in order
    lastReq,    \* the request served last
    resp,       \* the response it got
    conn,       \* per client: how much of its request has arrived
    queue,      \* connections the listening socket holds, oldest first
    current     \* the connection the one server thread is handling

fsVars == <<clock, dirExists, dir, log>>
netVars == <<conn, queue, current>>
vars == <<clock, dirExists, dir, log, lastReq, resp, conn, queue, current>>

Clients == {"c1", "c2"}

\* Client filenames of the server specifications: one plain name and two that
\* differ only in the separator they end with.
ClientFilenames == {<<"a">>, <<"a", "/">>, <<"a", "\\">>}

\* Every client filename of at most MaxLen characters (specification SanSpec).
Filenames == UNION {[1..n -> InputChars] : n \in 0..MaxLen}

\* Payloads: the zero-byte file and a two-byte file.
Datas == {<<>>, <<1, 2>>}

Paths == {"/", "/files", "/upload", "/other"}

\* Entries the directory may hold when the server starts, put there by the
\* host that shares it: a subdirectory and a symbolic link whose target is gone.
SubdirName == <<"s", "u", "b">>
LinkName == <<"l", "n", "k">>
HostEntries ==
    [n \in {SubdirName, LinkName} |->
        [kind |-> IF n = SubdirName THEN "dir" ELSE "dangling", data |-> <<>>, mtime |-> 0]]

\* Outcomes of the file system calls of lines 298-302.
IoOk == [kind |-> "ok", written |-> 0]
IoOutcomes(data) ==
    {IoOk, [kind |-> "mkdir_fail", written |-> 0], [kind |-> "open_fail", written |-> 0]}
        \cup {[kind |-> "write_fail", written |-> k] : k \in 0..(Len(data) - 1)}

Req(method, path, ctype, field, filename, data, io) ==
    [method |-> method, path |-> path, ctype |-> ctype, field |-> field,
     filename |-> filename, data |-> data, io |-> io]

NoReq == Req("", "", "", "absent", <<>>, <<>>, IoOk)

\* What a client may send. ctype: whether Content-Type holds
\* 'multipart/form-data'. field: the form has no `file` field ("absent"), a
\* `file` field that is a plain value without filename ("value"), or a `file`
\* field with a filename ("file").
UploadRequests(names) ==
    {Req("POST", "/upload", "multipart", "file", f, d, io) :
        f \in names, d \in Datas, io \in UNION {IoOutcomes(x) : x \in Datas}}

PlainRequests ==
    {Req("GET", p, "", "absent", <<>>, <<>>, IoOk) : p \in Paths}
        \cup {Req("PUT", p, "", "absent", <<>>, <<>>, IoOk) : p \in {"/upload", "/other"}}
        \cup {Req("POST", p, "multipart", "absent", <<>>, <<>>, IoOk) : p \in Paths}
        \cup {Req("POST", "/upload", "json", "absent", <<>>, <<>>, IoOk),
              Req("POST", "/upload", "multipart", "value", <<>>, <<>>, IoOk)}

(***************************************************************************)
(* Responses.                                                              *)
(***************************************************************************)
\* send_json, lines 238-242. kind tells a JSON array from a JSON object.
JsonArray(files) == [status |-> 200, kind |-> "array", body |-> files]
JsonObject(data, status) == [status |-> status, kind |-> "object", body |-> data]
\* send_response(404); end_headers(): lines 266-267 and 313-314.
NotFound == [status |-> 404, kind |-> "empty", body |-> <<>>]
\* Lines 246-249.
Page == [status |-> 200, kind |-> "html", body |-> <<>>]
\* BaseHTTPRequestHandler answers a method the class has no do_ method for
\* with send_error(501), an HTML error page.
Unsupported == [status |-> 501, kind |-> "html", body |-> <<>>]
\* The handler raised before it sent anything: the connection is closed with
\* no response.
NoResponse == [status |-> 0, kind |-> "none", body |-> <<>>]
Failure(message, status) == JsonObject([success |-> FALSE, error |-> message], status)

(***************************************************************************)
(* The handlers.                                                           *)
(***************************************************************************)
\* The entries for which f.is_file() holds (line 254).
RegularFiles(d) == {n \in DOMAIN d : d[n].kind = "file"}

\* x.stat() of line 253 raises for a link whose target is gone.
StatRaises(d) == \E n \in DOMAIN d : d[n].kind = "dangling"

\* One entry of the listing, lines 258-263.
FileEntry(d, n) ==
    [name |-> n, path |-> PathStr(UPLOAD_DIR \o <<n>>),
     size |-> SizeStr(Len(d[n].data)), time |-> TimeStr(d[n].mtime)]

\* Lines 253-263: the regular files by modification time, newest first.
\* iterdir yields the entries in no fixed order and the sort is stable, so
\* files of one modification time come in any order.
Listings(d) ==
    LET files == RegularFiles(d)
        n == Cardinality(files)
    IN  {[i \in 1..n |-> FileEntry(d, order[i])] :
            order \in {o \in [1..n -> files] :
                /\ \A i, j \in 1..n : i # j => o[i] # o[j]
                /\ \A i, j \in 1..n : i < j => d[o[i]].mtime >= d[o[j]].mtime}}

\* do_GET, lines 244-267. It has no try block: an exception leaves it before
\* any response is sent.
DoGET(req) ==
    /\ req.method = "GET"
    /\ lastReq' = req
    /\ UNCHANGED fsVars
    /\ \/ /\ req.path = "/"
          /\ resp' = Page
       \/ /\ req.path = "/files"
          /\ ~dirExists
          /\ resp' = JsonArray(<<>>)
       \/ /\ req.path = "/files"
          /\ dirExists
          /\ StatRaises(dir)
          /\ resp' = NoResponse
       \/ /\ req.path = "/files"
          /\ dirExists
          /\ ~StatRaises(dir)
          /\ \E files \in Listings(dir) : resp' = JsonArray(files)
       \/ /\ req.path \notin {"/", "/files"}
          /\ resp' = NotFound

\* filepath.write_bytes(data), line 302: the file is created or truncated, and
\* holds the bytes written when the call returns or raises.
WriteBytes(d, name, bytes) ==
    [n \in DOMAIN d \cup {name} |->
        IF n = name THEN [kind |-> "file", data |-> bytes, mtime |-> clock] ELSE d[n]]

\* Lines 285-305 and the except clause of lines 309-311, for a `file` field
\* with a filename.
UploadFile(req) ==
    LET sanitized == ReSub(req.filename)
        filename == StoredName(sanitized, clock)
        filepath == PathJoin(UPLOAD_DIR, filename)
        io == req.io
        entry(ok) == [name |-> filename, sanitized |-> sanitized,
                      timestamp |-> Timestamp(clock), data |-> req.data, ok |-> ok]
    IN  /\ req.field = "file"
        /\ Len(log) < MaxUploads
        /\ io \in IoOutcomes(req.data)
        /\ io.kind = "mkdir_fail" => ~dirExists
        /\ lastReq' = req
        /\ UNCHANGED clock
        /\ dirExists' = (dirExists \/ io.kind # "mkdir_fail")
        /\ dir' = IF io.kind = "ok" THEN WriteBytes(dir, filename, req.data)
                  ELSE IF io.kind = "write_fail"
                       THEN WriteBytes(dir, filename, SubSeq(req.data, 1, io.written))
                       ELSE dir
        /\ log' = IF io.kind \in {"ok", "write_fail"}
                  THEN Append(log, entry(io.kind = "ok"))
                  ELSE log
        /\ resp' = IF io.kind = "ok"
                   THEN JsonObject([success |-> TRUE, path |-> PathStr(filepath),
                                    size |-> Len(req.data)], 200)
                   ELSE Failure("OSError", 500)

\* do_POST, lines 269-314.
DoPOST(req) ==
    /\ req.method = "POST"
    /\ \/ /\ req.path # "/upload"
          /\ lastReq' = req
          /\ resp' = NotFound
          /\ UNCHANGED fsVars
       \/ /\ req.path = "/upload"
          /\ req.ctype # "multipart"
          /\ lastReq' = req
          /\ resp' = Failure("Invalid content type", 400)
          /\ UNCHANGED fsVars
       \/ /\ req.path = "/upload"
          /\ req.ctype = "multipart"
          /\ req.field = "absent"
          /\ lastReq' = req
          /\ resp' = Failure("No file provided", 400)
          /\ UNCHANGED fsVars
       \/ \* file_item.filename is None: re.sub raises TypeError (line 290),
          \* which the except clause answers with 500.
          /\ req.path = "/upload"
          /\ req.ctype = "multipart"
          /\ req.field = "value"
          /\ lastReq' = req
          /\ resp' = Failure("expected string or bytes-like object, got 'NoneType'", 500)
          /\ UNCHANGED fsVars
       \/ /\ req.path = "/upload"
          /\ req.ctype = "multipart"
          /\ UploadFile(req)

\* A method other than GET and POST: UploadHandler (lines 234-314) defines
\* do_GET and do_POST only, and the base class answers 501.
DoOther(req) ==
    /\ req.method \notin {"GET", "POST"}
    /\ lastReq' = req
    /\ resp' = Unsupported
    /\ UNCHANGED fsVars

\* One request, served from its first byte to its response.
Serve(req) == DoGET(req) \/ DoPOST(req) \/ DoOther(req)

(***************************************************************************)
(* The server and its environment.                                         *)
(***************************************************************************)
\* main, lines 316-319: the directory exists (line 317) with whatever the host
\* left in it, and the server listens with nothing served yet.
Init ==
    /\ clock = 0
    /\ dirExists = TRUE
    /\ \E present \in SUBSET {SubdirName, LinkName} :
           dir = [n \in present |-> HostEntries[n]]
    /\ log = <<>>
    /\ lastReq = NoReq
    /\ resp = NoResponse
    /\ conn = [c \in Clients |-> "idle"]
    /\ queue = <<>>
    /\ current = "none"

\* A second passes on the wall clock.
Tick ==
    /\ clock < MaxClock
    /\ clock' = clock + 1
    /\ UNCHANGED <<dirExists, dir, log, lastReq, resp, netVars>>

\* The host removes the directory while it is empty.
HostRemovesDir ==
    /\ dirExists
    /\ DOMAIN dir = {}
    /\ dirExists' = FALSE
    /\ UNCHANGED <<clock, dir, log, lastReq, resp, netVars>>

\* serve_forever, line 325, seen from the directory: HTTPServer serves one
\* request at a time, each to its end.
Request ==
    /\ \E req \in PlainRequests \cup UploadRequests(ClientFilenames) : Serve(req)
    /\ UNCHANGED netVars

Next == Tick \/ HostRemovesDir \/ Request

Spec == Init /\ [][Next]_vars

\* The naming of one upload, over every client filename up to MaxLen.
NameOneUpload ==
    /\ log = <<>>
    /\ \E f \in Filenames, d \in Datas :
           UploadFile(Req("POST", "/upload", "multipart", "file", f, d, IoOk))
    /\ UNCHANGED netVars

SanNext == Tick \/ NameOneUpload

SanSpec == Init /\ [][SanNext]_vars

(***************************************************************************)
(* Connections: HTTPServer (line 319) is the single-threaded server, so     *)
(* serve_forever (line 325) accepts a connection, reads and serves its      *)
(* request, and only then accepts the next one.                            *)
(***************************************************************************)
\* A client connects and sends its request, whole or only a part of it.
Connect(c) ==
    /\ conn[c] = "idle"
    /\ \E arrived \in {"partial", "complete"} : conn' = [conn EXCEPT ![c] = arrived]
    /\ queue' = Append(queue, c)
    /\ UNCHANGED <<fsVars, lastReq, resp, current>>

\* The rest of a request arrives.
SendRest(c) ==
    /\ conn[c] = "partial"
    /\ conn' = [conn EXCEPT ![c] = "complete"]
    /\ UNCHANGED <<fsVars, lastReq, resp, queue, current>>

\* The server thread takes the oldest waiting connection.
Accept ==
    /\ current = "none"
    /\ queue # <<>>
    /\ current' = Head(queue)
    /\ queue' = Tail(queue)
    /\ UNCHANGED <<fsVars, lastReq, resp, conn>>

\* The server thread reads the request of the connection it holds (rfile
\* blocks until the bytes are there; no timeout is set), serves it and closes
\* the connection.
Handle(c) ==
    /\ current = c
    /\ conn[c] = "complete"
    /\ \E req \in PlainRequests \cup UploadRequests(ClientFilenames) : Serve(req)
    /\ conn' = [conn EXCEPT ![c] = "idle"]
    /\ current' = "none"
    /\ UNCHANGED queue

NetNext ==
    \/ Tick
    \/ HostRemovesDir
    \/ Accept
    \/ \E c \in Clients : Connect(c) \/ SendRest(c) \/ Handle(c)

\* The server thread keeps running: it accepts when it can and serves a
\* request that has arrived. Nothing makes a client send the rest of a request.
FairSpec ==
    /\ Init
    /\ [][NetNext]_vars
    /\ WF_vars(Accept)
    /\ \A c \in Clients : WF_vars(Handle(c))

(***************************************************************************)
(* Properties.                                                             *)
(***************************************************************************)
Range(s) == {s[i] : i \in 1..Len(s)}

IsUpload(r) == r.method = "POST" /\ r.path = "/upload"

IsListing(r) == r.method = "GET" /\ r.path = "/files"

\* The last request was an upload answered {success: true, path, size}.
UploadSucceeded ==
    IsUpload(lastReq) /\ resp.status = 200 /\ resp.kind = "object" /\ resp.body.success

\* The file of the i-th write is in the directory with the bytes of that upload.
Intact(i) ==
    /\ log[i].name \in DOMAIN dir
    /\ dir[log[i].name].kind = "file"
    /\ dir[log[i].name].data = log[i].data

\* C1: for every client filename an upload accepted, separators and ".."
\* included, the stored name holds no path separator and is no ".." segment,
\* and the path written, UPLOAD_DIR joined with the stored name, is the
\* directory followed by that one segment: it resolves to a place inside the
\* directory, where the file then is.
C1_StoredNameStaysInside ==
    \A i \in 1..Len(log) :
        log[i].ok =>
            LET name == log[i].name
                filepath == PathJoin(UPLOAD_DIR, name)
            IN  /\ "/" \notin Range(name)
                /\ "\\" \notin Range(name)
                /\ <<".", ".">> \notin Range(filepath)
                /\ filepath = UPLOAD_DIR \o <<name>>
                /\ Inside(UPLOAD_DIR, Resolve(filepath))
                /\ name \in RegularFiles(dir)

\* C1, its case: the filename "../" was uploaded and accepted, and its file is
\* in the directory under a name that kept the two dots and lost the separator.
C1_Witness ==
    /\ UploadSucceeded
    /\ lastReq.filename = <<".", ".", "/">>
    /\ Len(log) = 1
    /\ log[1].sanitized = <<".", ".", "_">>
    /\ log[1].name \in RegularFiles(dir)
    /\ resp.body.path = PathStr(UPLOAD_DIR \o <<log[1].name>>)

\* C2, as claimed: an upload answered with success reports the size of the
\* file at the reported path, and a later GET /files returns an entry with the
\* name of every file uploaded with success before it.
C2_SizeReportedAndFileListed ==
    /\ UploadSucceeded =>
           LET name == log[Len(log)].name
           IN  /\ name \in RegularFiles(dir)
               /\ resp.body.path = PathStr(UPLOAD_DIR \o <<name>>)
               /\ resp.body.size = Len(dir[name].data)
    /\ IsListing(lastReq) =>
           \A i \in 1..Len(log) :
               log[i].ok =>
                   /\ resp.kind = "array"
                   /\ \E k \in 1..Len(resp.body) : resp.body[k].name = log[i].name

\* C3, as claimed: every file a successful upload created is still there with
\* the bytes of that upload, whatever was served since.
C3_UploadedFilesNeverOverwritten ==
    \A i \in 1..Len(log) : log[i].ok => Intact(i)

\* C3, amended: a file a successful upload created is never removed, and it
\* keeps the bytes of that upload unless a later upload came with the same
\* sanitized filename in the same second of the clock; only such an upload
\* gets a name that is already in the directory.
C3_OverwrittenOnlyBySameNameSameSecond ==
    /\ \A i \in 1..Len(log) : log[i].name \in RegularFiles(dir)
    /\ \A i \in 1..Len(log) :
           log[i].ok =>
               \/ Intact(i)
               \/ \E j \in (i + 1)..Len(log) :
                      /\ log[j].sanitized = log[i].sanitized
                      /\ log[j].timestamp = log[i].timestamp
    /\ \A i, j \in 1..Len(log) :
           (i < j /\ log[i].name = log[j].name) =>
               /\ log[j].sanitized = log[i].sanitized
               /\ log[j].timestamp = log[i].timestamp

\* C3, its case: the same filename was uploaded twice with different bytes, a
\* second apart, and both files are in the directory, each with its bytes.
C3_Witness ==
    \E i, j \in 1..Len(log) :
        /\ i < j
        /\ log[i].ok /\ log[j].ok
        /\ log[i].sanitized = log[j].sanitized
        /\ log[i].timestamp # log[j].timestamp
        /\ log[i].data # log[j].data
        /\ Intact(i) /\ Intact(j)

\* C4, as claimed: a step that answers an upload with a failure (400 or 500)
\* leaves the directory as it was: no file of that request, whole or partial.
C4_FailedUploadLeavesNoFile ==
    [][(IsUpload(lastReq') /\ resp'.status \in {400, 500}) => dir' = dir]_vars

\* C5, as claimed: an upload that is not multipart, or has no `file` field,
\* or has a `file` field without a filename, is answered 400 with
\* {success: false, error}; without the field the error is "No file provided".
C5_InvalidUploadAnswered400 ==
    (/\ IsUpload(lastReq)
     /\ \/ lastReq.ctype # "multipart"
        \/ lastReq.field \in {"absent", "value"})
        => /\ resp.status = 400
           /\ resp.kind = "object"
           /\ resp.body.success = FALSE
           /\ (lastReq.ctype = "multipart" /\ lastReq.field = "absent")
                  => resp.body.error = "No file provided"

\* The handler of the last request raised: a stat of the listing failed, the
\* filename was None, or a file system call of the upload failed.
Raised ==
    \/ IsListing(lastReq) /\ dirExists /\ StatRaises(dir)
    \/ /\ IsUpload(lastReq)
       /\ lastReq.ctype = "multipart"
       /\ \/ lastReq.field = "value"
          \/ lastReq.field = "file" /\ lastReq.io.kind # "ok"

\* C6, as claimed: a failure raised while GET /files or POST /upload is served
\* is answered with a JSON error object.
C6_FailureAnsweredWithJsonError ==
    Raised => /\ resp.kind = "object"
              /\ resp.status \in {400, 500}
              /\ resp.body.success = FALSE

\* C7, as claimed: a request that has arrived whole is answered in the end,
\* whatever the other client does with its own request.
C7_ArrivedRequestIsAnswered ==
    \A c \in Clients : (conn[c] = "complete") ~> (conn[c] = "idle")

\* C8, as claimed: GET /files is always answered 200 with an array of one
\* entry per regular file of the directory, subdirectories left out, newest
\* first, and an empty array when the directory is empty or missing.
C8_ListingAlwaysAnswered ==
    IsListing(lastReq) =>
        /\ resp.status = 200
        /\ resp.kind = "array"
        /\ {resp.body[k].name : k \in 1..Len(resp.body)} =
               (IF dirExists THEN RegularFiles(dir) ELSE {})
        /\ \A k, l \in 1..Len(resp.body) :
               k < l => /\ resp.body[k].name # resp.body[l].name
                        /\ dir[resp.body[k].name].mtime >= dir[resp.body[l].name].mtime

\* The request is none of GET /, GET /files, POST /upload.
Unrecognised(r) ==
    /\ r.method # ""
    /\ ~(r.method = "GET" /\ r.path \in {"/", "/files"})
    /\ ~(r.method = "POST" /\ r.path = "/upload")

\* C9, as claimed: a request that is none of the three routes, under any
\* method, is answered 404 with an empty body and changes nothing in the
\* directory.
C9_UnrecognisedAnswered404 ==
    [][Unrecognised(lastReq') =>
           /\ resp'.status = 404
           /\ resp'.kind = "empty"
           /\ dir' = dir]_vars

\* The characters the claim lets through: ASCII letter, ASCII digit,
\* underscore, hyphen, dot.
AsciiKept == AsciiWord \cup {"-", "."}

\* C10, as claimed: the sanitized name is the client filename with every
\* character outside that ASCII set replaced by an underscore, so a name
\* written to the directory holds characters of that set only.
C10_OnlyAsciiNameCharacters ==
    UploadSucceeded =>
        LET f == lastReq.filename
            e == log[Len(log)]
        IN  /\ e.sanitized = [k \in 1..Len(f) |-> IF f[k] \in AsciiKept THEN f[k] ELSE "_"]
            /\ Range(e.name) \subseteq AsciiKept

====
